---- MODULE Spec2Model ----
(***************************************************************************)
(* Digital Challenge Coin: the Coin3D object (orientation, flip animation, *)
(* gesture handler), the frame loop of main() and the per-vertex colour of *)
(* draw_edge(), modelled from src/DigitalCoinApp/src/main.py.              *)
(*                                                                         *)
(* Units.  Angles angle_x / angle_y are kept in hundredths of a degree, so *)
(* that both gains of handle_gesture are integers: a mouse pixel is worth  *)
(* 0.5 degree (MouseGain) and a touch delta, given in thousandths of the   *)
(* normalised screen size, is worth 180/1000 degree (TouchGain).           *)
(* flip_anim and flip_target are whole degrees, as in the code.            *)
(* Colour channels are kept in ten-thousandths (ColourOne is 1.0).         *)
(***************************************************************************)
EXTENDS Integers, Sequences, FiniteSets, TLC

\* ------------------------------------------------------------------------
\* Bounds of the model
MaxTriggers == 3   \* flip triggers handled in one run
MaxRot == 2        \* rotation events (drag / touch-move) handled in one run
MaxBatch == 2      \* events returned by one pygame.event.get()

\* ------------------------------------------------------------------------
\* Program constants
FlipIncrement == 180
FlipStep == 20
MouseGain == 50
TouchGain == 18
FlipTouchId == 2

VARIABLES
    \* fields of Coin3D
    angle_x, angle_y, flipped, last_pos, flip_anim, flip_target,
    \* the call that was made last, and its argument
    last_op, last_event,
    \* history of the run
    triggers, toggles, rot_count,
    sum_mouse_dx, sum_mouse_dy, sum_touch_dx, sum_touch_dy,
    since, due,
    \* main(): position in the frame loop, the loop flag, the events of the
    \* current pygame.event.get() still to handle, and the GL capabilities
    pc, running, queue, gl,
    \* history of the current tick: the batch polled, the events handled, the
    \* steps run, the primitives emitted by draw_coin()
    batch, handled, frame, drawn,
    \* steps run since running became False
    after_quit,
    \* draw_edge(): the loop variable i (degrees), the vertices emitted so
    \* far and the colours of the last pair of vertices
    edge_i, edge_n, edge_front, edge_back

coin == <<angle_x, angle_y, flipped, last_pos, flip_anim, flip_target>>
hist == <<triggers, toggles, rot_count,
          sum_mouse_dx, sum_mouse_dy, sum_touch_dx, sum_touch_dy, since, due>>
loop == <<pc, running, queue, gl, batch, handled, frame, drawn, after_quit>>
edge == <<edge_i, edge_n, edge_front, edge_back>>
vars == <<coin, last_op, last_event, hist, loop, edge>>

\* ------------------------------------------------------------------------
\* Events (pygame event objects, by type)
NoPos == <<>>
Positions == {<<300, 300>>}
MouseRels == {<<10, -5>>, <<-4, 2>>}
TouchRels == {<<-3, 7>>}

NoEvent == [type |-> "NONE"]
QuitEvent == [type |-> "QUIT"]

Events ==
    {QuitEvent}
    \cup [type : {"MOUSEBUTTONDOWN"}, button : {1, 2, 3}, pos : Positions]
    \cup [type : {"MOUSEBUTTONUP"}, button : {1}, pos : Positions]
    \cup [type : {"MOUSEMOTION"}, held : BOOLEAN, rel : MouseRels]
    \cup [type : {"FINGERDOWN"}, touch_id : {1, 2}]
    \cup [type : {"FINGERMOTION"}, rel : TouchRels]

IsFlipTrigger(e) ==
    \/ e.type = "MOUSEBUTTONDOWN" /\ e.button = 3
    \/ e.type = "FINGERDOWN" /\ e.touch_id = FlipTouchId

IsRotation(e) ==
    \/ e.type = "MOUSEMOTION" /\ e.held
    \/ e.type = "FINGERMOTION"

\* ------------------------------------------------------------------------
\* Coin3D.__init__
CoinInit ==
    /\ angle_x = 0
    /\ angle_y = 0
    /\ flipped = FALSE
    /\ last_pos = NoPos
    /\ flip_anim = 0
    /\ flip_target = 0

\* handle_gesture with the flip touch id compared against 1 instead of 2
handle_gesture_wrong_touch(e) ==
    IF e.type = "MOUSEBUTTONDOWN" THEN
        IF e.button = 1 THEN
            /\ last_pos' = e.pos
            /\ UNCHANGED <<angle_x, angle_y, flipped, flip_anim, flip_target>>
        ELSE IF e.button = 3 THEN
            /\ flip_target' = flip_target + FlipIncrement
            /\ UNCHANGED <<angle_x, angle_y, flipped, last_pos, flip_anim>>
        ELSE UNCHANGED coin
    ELSE IF e.type = "MOUSEMOTION" /\ e.held THEN
        /\ angle_y' = angle_y + e.rel[1] * MouseGain
        /\ angle_x' = angle_x + e.rel[2] * MouseGain
        /\ UNCHANGED <<flipped, last_pos, flip_anim, flip_target>>
    ELSE IF e.type = "FINGERDOWN" THEN
        IF e.touch_id = 1 THEN
            /\ flip_target' = flip_target + FlipIncrement
            /\ UNCHANGED <<angle_x, angle_y, flipped, last_pos, flip_anim>>
        ELSE UNCHANGED coin
    ELSE IF e.type = "FINGERMOTION" THEN
        /\ angle_y' = angle_y + e.rel[1] * TouchGain
        /\ angle_x' = angle_x + e.rel[2] * TouchGain
        /\ UNCHANGED <<flipped, last_pos, flip_anim, flip_target>>
    ELSE UNCHANGED coin

\* handle_gesture that rotates on mouse motion whether or not the primary
\* button is held
handle_gesture_any_motion(e) ==
    IF e.type = "MOUSEBUTTONDOWN" THEN
        IF e.button = 1 THEN
            /\ last_pos' = e.pos
            /\ UNCHANGED <<angle_x, angle_y, flipped, flip_anim, flip_target>>
        ELSE IF e.button = 3 THEN
            /\ flip_target' = flip_target + FlipIncrement
            /\ UNCHANGED <<angle_x, angle_y, flipped, last_pos, flip_anim>>
        ELSE UNCHANGED coin
    ELSE IF e.type = "MOUSEMOTION" THEN
        /\ angle_y' = angle_y + e.rel[1] * MouseGain
        /\ angle_x' = angle_x + e.rel[2] * MouseGain
        /\ UNCHANGED <<flipped, last_pos, flip_anim, flip_target>>
    ELSE IF e.type = "FINGERDOWN" THEN
        IF e.touch_id = FlipTouchId THEN
            /\ flip_target' = flip_target + FlipIncrement
            /\ UNCHANGED <<angle_x, angle_y, flipped, last_pos, flip_anim>>
        ELSE UNCHANGED coin
    ELSE IF e.type = "FINGERMOTION" THEN
        /\ angle_y' = angle_y + e.rel[1] * TouchGain
        /\ angle_x' = angle_x + e.rel[2] * TouchGain
        /\ UNCHANGED <<flipped, last_pos, flip_anim, flip_target>>
    ELSE UNCHANGED coin

\* Coin3D.handle_gesture(event)
handle_gesture(e) ==
    IF e.type = "MOUSEBUTTONDOWN" THEN
        IF e.button = 1 THEN
            /\ last_pos' = e.pos
            /\ UNCHANGED <<angle_x, angle_y, flipped, flip_anim, flip_target>>
        ELSE IF e.button = 3 THEN
            /\ flip_target' = flip_target + FlipIncrement
            /\ UNCHANGED <<angle_x, angle_y, flipped, last_pos, flip_anim>>
        ELSE UNCHANGED coin
    ELSE IF e.type = "MOUSEMOTION" /\ e.held THEN
        /\ angle_y' = angle_y + e.rel[1] * MouseGain
        /\ angle_x' = angle_x + e.rel[2] * MouseGain
        /\ UNCHANGED <<flipped, last_pos, flip_anim, flip_target>>
    ELSE IF e.type = "FINGERDOWN" THEN
        IF e.touch_id = FlipTouchId THEN
            /\ flip_target' = flip_target + FlipIncrement
            /\ UNCHANGED <<angle_x, angle_y, flipped, last_pos, flip_anim>>
        ELSE UNCHANGED coin
    ELSE IF e.type = "FINGERMOTION" THEN
        /\ angle_y' = angle_y + e.rel[1] * TouchGain
        /\ angle_x' = angle_x + e.rel[2] * TouchGain
        /\ UNCHANGED <<flipped, last_pos, flip_anim, flip_target>>
    ELSE UNCHANGED coin

\* update that forgets to reset flip_anim when the flip completes
update_keeps_anim ==
    IF flip_anim < flip_target THEN
        IF flip_anim + FlipStep >= flip_target THEN
            /\ flip_anim' = flip_anim + FlipStep
            /\ flip_target' = 0
            /\ flipped' = ~flipped
            /\ UNCHANGED <<angle_x, angle_y, last_pos>>
        ELSE
            /\ flip_anim' = flip_anim + FlipStep
            /\ UNCHANGED <<angle_x, angle_y, flipped, last_pos, flip_target>>
    ELSE UNCHANGED coin

\* update that completes only when flip_anim has passed flip_target
update_strict ==
    IF flip_anim < flip_target THEN
        IF flip_anim + FlipStep > flip_target THEN
            /\ flip_anim' = 0
            /\ flip_target' = 0
            /\ flipped' = ~flipped
            /\ UNCHANGED <<angle_x, angle_y, last_pos>>
        ELSE
            /\ flip_anim' = flip_anim + FlipStep
            /\ UNCHANGED <<angle_x, angle_y, flipped, last_pos, flip_target>>
    ELSE UNCHANGED coin

\* update that toggles flipped on every step of a flip
update_toggles_each_step ==
    IF flip_anim < flip_target THEN
        IF flip_anim + FlipStep >= flip_target THEN
            /\ flip_anim' = 0
            /\ flip_target' = 0
            /\ flipped' = ~flipped
            /\ UNCHANGED <<angle_x, angle_y, last_pos>>
        ELSE
            /\ flip_anim' = flip_anim + FlipStep
            /\ flipped' = ~flipped
            /\ UNCHANGED <<angle_x, angle_y, last_pos, flip_target>>
    ELSE UNCHANGED coin

\* Coin3D.update()
update ==
    IF flip_anim < flip_target THEN
        IF flip_anim + FlipStep >= flip_target THEN
            /\ flip_anim' = 0
            /\ flip_target' = 0
            /\ flipped' = ~flipped
            /\ UNCHANGED <<angle_x, angle_y, last_pos>>
        ELSE
            /\ flip_anim' = flip_anim + FlipStep
            /\ UNCHANGED <<angle_x, angle_y, flipped, last_pos, flip_target>>
    ELSE UNCHANGED coin

\* ------------------------------------------------------------------------
\* History of a run: what has been handled so far
WithinBounds(e) ==
    /\ IsFlipTrigger(e) => triggers < MaxTriggers
    /\ IsRotation(e) => rot_count < MaxRot

RecordGesture(e) ==
    /\ triggers' = IF IsFlipTrigger(e) THEN triggers + 1 ELSE triggers
    /\ rot_count' = IF IsRotation(e) THEN rot_count + 1 ELSE rot_count
    /\ sum_mouse_dx' = IF e.type = "MOUSEMOTION" /\ e.held
                       THEN sum_mouse_dx + e.rel[1] ELSE sum_mouse_dx
    /\ sum_mouse_dy' = IF e.type = "MOUSEMOTION" /\ e.held
                       THEN sum_mouse_dy + e.rel[2] ELSE sum_mouse_dy
    /\ sum_touch_dx' = IF e.type = "FINGERMOTION"
                       THEN sum_touch_dx + e.rel[1] ELSE sum_touch_dx
    /\ sum_touch_dy' = IF e.type = "FINGERMOTION"
                       THEN sum_touch_dy + e.rel[2] ELSE sum_touch_dy
    /\ since' = IF IsFlipTrigger(e) THEN 0 ELSE since
    /\ due' = IF IsFlipTrigger(e)
              THEN (flip_target + FlipIncrement - flip_anim) \div FlipStep
              ELSE due
    /\ UNCHANGED toggles

RecordUpdate ==
    /\ since' = IF flip_anim < flip_target THEN since + 1 ELSE since
    /\ toggles' = IF flipped' # flipped THEN toggles + 1 ELSE toggles
    /\ UNCHANGED <<triggers, rot_count, due,
                   sum_mouse_dx, sum_mouse_dy, sum_touch_dx, sum_touch_dy>>

HistInit ==
    /\ triggers = 0
    /\ toggles = 0
    /\ rot_count = 0
    /\ sum_mouse_dx = 0
    /\ sum_mouse_dy = 0
    /\ sum_touch_dx = 0
    /\ sum_touch_dy = 0
    /\ since = 0
    /\ due = 0

\* ------------------------------------------------------------------------
\* The Coin under any interleaving of handle_gesture(event) and update()
NoCounts == [polls |-> 0, updates |-> 0, draws |-> 0, presents |-> 0]

\* the frame loop is not running: the Coin is driven directly
LoopOff ==
    /\ pc = "off"
    /\ running = FALSE
    /\ queue = <<>>
    /\ gl = [depth_test |-> FALSE, blend |-> FALSE, lighting |-> FALSE, texture_2d |-> FALSE]
    /\ batch = <<>>
    /\ handled = <<>>
    /\ frame = <<>>
    /\ drawn = <<>>
    /\ after_quit = NoCounts

\* draw_edge() has not started
EdgeInit ==
    /\ edge_i = 0
    /\ edge_n = 0
    /\ edge_front = <<>>
    /\ edge_back = <<>>

Init ==
    /\ CoinInit
    /\ HistInit
    /\ last_op = "init"
    /\ last_event = NoEvent
    /\ LoopOff
    /\ EdgeInit

Gesture ==
    \E e \in Events :
        /\ WithinBounds(e)
        /\ handle_gesture(e)
        /\ RecordGesture(e)
        /\ last_op' = "handle_gesture"
        /\ last_event' = e
        /\ UNCHANGED <<loop, edge>>

Update ==
    /\ update
    /\ RecordUpdate
    /\ last_op' = "update"
    /\ last_event' = NoEvent
    /\ UNCHANGED <<loop, edge>>

Next ==
    \/ Gesture
    \/ Update

Spec == Init /\ [][Next]_vars

FairSpec == Spec /\ WF_vars(Update)

\* ------------------------------------------------------------------------
\* main(): the frame loop

\* one event of each kind the loop can receive
MainEvents ==
    { QuitEvent,
      [type |-> "MOUSEBUTTONDOWN", button |-> 1, pos |-> <<300, 300>>],
      [type |-> "MOUSEBUTTONDOWN", button |-> 3, pos |-> <<300, 300>>],
      [type |-> "MOUSEMOTION", held |-> TRUE, rel |-> <<10, -5>>],
      [type |-> "FINGERDOWN", touch_id |-> 2],
      [type |-> "FINGERMOTION", rel |-> <<-3, 7>>] }

\* what one pygame.event.get() can return
Batches == UNION {[1..n -> MainEvents] : n \in 0..MaxBatch}

CountTriggers(b) == Cardinality({i \in DOMAIN b : IsFlipTrigger(b[i])})
CountRotations(b) == Cardinality({i \in DOMAIN b : IsRotation(b[i])})

BatchWithinBounds(b) ==
    /\ triggers + CountTriggers(b) <= MaxTriggers
    /\ rot_count + CountRotations(b) <= MaxRot

Step(name) == frame' = Append(frame, name)

Emit(prim, tex, caps) ==
    [prim |-> prim, tex |-> tex, blend |-> caps.blend,
     depth_test |-> caps.depth_test, lighting |-> caps.lighting]

CountAfterQuit(field) ==
    after_quit' = IF running THEN after_quit
                  ELSE [after_quit EXCEPT ![field] = @ + 1]

\* main(), up to the loop: depth test and blending are enabled, the Coin is
\* constructed, running = True
MainInit ==
    /\ CoinInit
    /\ HistInit
    /\ last_op = "init"
    /\ last_event = NoEvent
    /\ pc = "while"
    /\ running = TRUE
    /\ queue = <<>>
    /\ gl = [depth_test |-> TRUE, blend |-> TRUE, lighting |-> FALSE, texture_2d |-> FALSE]
    /\ batch = <<>>
    /\ handled = <<>>
    /\ frame = <<>>
    /\ drawn = <<>>
    /\ after_quit = NoCounts
    /\ EdgeInit

\* while running: ... pygame.event.get()
PollEvents ==
    /\ pc = "while"
    /\ running
    /\ \E b \in Batches :
          /\ BatchWithinBounds(b)
          /\ batch' = b
          /\ queue' = b
    /\ handled' = <<>>
    /\ frame' = <<"poll">>
    /\ drawn' = <<>>
    /\ pc' = "events"
    /\ CountAfterQuit("polls")
    /\ UNCHANGED <<edge, coin, last_op, last_event, hist, running, gl>>

\* the body of the for loop, leaving the loop at a QUIT event
HandleEvent_break_on_quit ==
    /\ pc = "events"
    /\ queue # <<>>
    /\ LET e == Head(queue) IN
          /\ running' = IF e.type = "QUIT" THEN FALSE ELSE running
          /\ handle_gesture(e)
          /\ handled' = Append(handled, e)
          /\ last_event' = e
          /\ triggers' = IF IsFlipTrigger(e) THEN triggers + 1 ELSE triggers
          /\ rot_count' = IF IsRotation(e) THEN rot_count + 1 ELSE rot_count
          /\ queue' = IF e.type = "QUIT" THEN <<>> ELSE Tail(queue)
    /\ last_op' = "handle_gesture"
    /\ Step("handle_gesture")
    /\ UNCHANGED <<toggles, sum_mouse_dx, sum_mouse_dy, sum_touch_dx, sum_touch_dy,
                   since, due, pc, gl, batch, drawn, after_quit, edge>>

\* the body of the for loop, for the next event of the batch
HandleEvent ==
    /\ pc = "events"
    /\ queue # <<>>
    /\ LET e == Head(queue) IN
          /\ running' = IF e.type = "QUIT" THEN FALSE ELSE running
          /\ handle_gesture(e)
          /\ handled' = Append(handled, e)
          /\ last_event' = e
          /\ triggers' = IF IsFlipTrigger(e) THEN triggers + 1 ELSE triggers
          /\ rot_count' = IF IsRotation(e) THEN rot_count + 1 ELSE rot_count
    /\ queue' = Tail(queue)
    /\ last_op' = "handle_gesture"
    /\ Step("handle_gesture")
    /\ UNCHANGED <<toggles, sum_mouse_dx, sum_mouse_dy, sum_touch_dx, sum_touch_dy,
                   since, due, pc, gl, batch, drawn, after_quit, edge>>

\* the clear, with the light left where it was
Clear_skips_light ==
    /\ pc = "events"
    /\ queue = <<>>
    /\ Step("clear")
    /\ pc' = "update"
    /\ UNCHANGED <<edge, coin, last_op, last_event, hist, running, queue, gl, batch,
                   handled, drawn, after_quit>>

\* glClearColor, glClear
Clear ==
    /\ pc = "events"
    /\ queue = <<>>
    /\ Step("clear")
    /\ pc' = "light"
    /\ UNCHANGED <<edge, coin, last_op, last_event, hist, running, queue, gl, batch,
                   handled, drawn, after_quit>>

\* glLightfv(GL_LIGHT0, GL_POSITION, ...), glEnable(GL_LIGHTING), glEnable(GL_LIGHT0)
PositionLight ==
    /\ pc = "light"
    /\ Step("light")
    /\ gl' = [gl EXCEPT !.lighting = TRUE]
    /\ pc' = "update"
    /\ UNCHANGED <<edge, coin, last_op, last_event, hist, running, queue, batch,
                   handled, drawn, after_quit>>

\* coin.update()
UpdateState ==
    /\ pc = "update"
    /\ update
    /\ last_op' = "update"
    /\ last_event' = NoEvent
    /\ Step("update")
    /\ CountAfterQuit("updates")
    /\ pc' = "draw"
    /\ UNCHANGED <<edge, hist, running, queue, gl, batch, handled, drawn>>

\* coin.draw() up to the edge ring of draw_coin(): lighting on, draw_edge(),
\* lighting off
DrawEdge ==
    /\ pc = "draw"
    /\ Step("draw")
    /\ drawn' = Append(drawn, Emit("edge", "none", [gl EXCEPT !.lighting = TRUE]))
    /\ gl' = [gl EXCEPT !.lighting = FALSE]
    /\ CountAfterQuit("draws")
    /\ pc' = "faces"
    /\ UNCHANGED <<edge, coin, last_op, last_event, hist, running, queue, batch, handled>>

\* draw_coin(): the two textured faces
DrawFaces ==
    /\ pc = "faces"
    /\ LET caps == [gl EXCEPT !.texture_2d = TRUE] IN
          drawn' = drawn \o
              << Emit("face_front", IF ~flipped THEN "front" ELSE "back", caps),
                 Emit("face_back", IF ~flipped THEN "back" ELSE "front", caps) >>
    /\ gl' = [gl EXCEPT !.texture_2d = FALSE]
    /\ pc' = "holo"
    /\ UNCHANGED <<edge, coin, last_op, last_event, hist, running, queue, batch,
                   handled, frame, after_quit>>

\* GL capabilities while draw_holo_shine() emits its two fans
HoloCaps(caps) ==
    [caps EXCEPT !.blend = TRUE, !.lighting = FALSE]

\* draw_holo_shine(), then the end of draw()
DrawHoloShine ==
    /\ pc = "holo"
    /\ drawn' = drawn \o
          << Emit("holo_front", "none", HoloCaps(gl)),
             Emit("holo_back", "none", HoloCaps(gl)) >>
    /\ gl' = [HoloCaps(gl) EXCEPT !.lighting = TRUE, !.blend = FALSE]
    /\ pc' = "present"
    /\ UNCHANGED <<edge, coin, last_op, last_event, hist, running, queue, batch,
                   handled, frame, after_quit>>

\* glDisable(GL_LIGHTING), pygame.display.flip(), clock.tick(FPS)
Present ==
    /\ pc = "present"
    /\ gl' = [gl EXCEPT !.lighting = FALSE]
    /\ Step("present")
    /\ CountAfterQuit("presents")
    /\ pc' = "while"
    /\ UNCHANGED <<edge, coin, last_op, last_event, hist, running, queue, batch,
                   handled, drawn>>

\* the loop test fails: pygame.quit()
Exit ==
    /\ pc = "while"
    /\ ~running
    /\ pc' = "done"
    /\ UNCHANGED <<edge, coin, last_op, last_event, hist, running, queue, gl, batch,
                   handled, frame, drawn, after_quit>>

MainNext ==
    \/ PollEvents
    \/ HandleEvent
    \/ Clear
    \/ PositionLight
    \/ UpdateState
    \/ DrawEdge
    \/ DrawFaces
    \/ DrawHoloShine
    \/ Present
    \/ Exit

MainSpec == MainInit /\ [][MainNext]_vars

FairMainSpec == MainSpec /\ WF_vars(MainNext)


\* ------------------------------------------------------------------------
\* draw_edge(): the colour of each pair of rim vertices
\*
\* Colour channels are integers in ten-thousandths.  The sines and cosines
\* of the code take arguments in radians that mix the step angle with
\* angle_x and angle_y; their values are drawn from samples of [-1, 1], the
\* range they have for any angles.

ColourOne == 10000
EdgeLast == 360
EdgeStride == 5
MirrorPower == 18

Sines == {-10000, -5000, 0, 5000, 10000}
NoiseSines == {-10000, 0, 10000}
MirrorCosines == {-10000, 0, 9500}

Abs(x) == IF x < 0 THEN -x ELSE x
Min(a, b) == IF a < b THEN a ELSE b
Max(a, b) == IF a > b THEN a ELSE b

Mul(a, b) == (a * b) \div ColourOne

RECURSIVE Pow(_, _)
Pow(x, n) == IF n = 0 THEN ColourOne ELSE Mul(x, Pow(x, n - 1))

\* band = (sin(..) + cos(..)) * 0.5 + 0.5
Band(s, c) == (s + c) \div 2 + 5000

\* mirror = pow(abs(cos(..)), 18)
Mirror(c) == Pow(Abs(c), MirrorPower)

\* noise = 0.07 * sin(..) + 0.07 * cos(..)
Noise(s, c) == (7 * s) \div 100 + (7 * c) \div 100

\* the chrome base colour of a band
BaseColour(band) ==
    IF band < 2500 THEN <<2000, 5000, 9000>>
    ELSE IF band < 5000 THEN <<2000, 8000, 4000>>
    ELSE IF band < 7500 THEN <<9000, 8000, 2000>>
    ELSE <<8000, 2000, 7000>>

\* the front colour with the upper clamp only
FrontColour_no_floor(band, mirror, noise) ==
    LET base == BaseColour(band)
        add == (7 * mirror) \div 10 + noise
    IN  << Min(base[1] + add, ColourOne),
           Min(base[2] + add, ColourOne),
           Min(base[3] + add, ColourOne) >>

\* r, g, b = min(max(.. + 0.7 * mirror + noise, floor), 1.0)
FrontColour(band, mirror, noise) ==
    LET base == BaseColour(band)
        add == (7 * mirror) \div 10 + noise
    IN  << Min(Max(base[1] + add, 800), ColourOne),
           Min(Max(base[2] + add, 800), ColourOne),
           Min(Max(base[3] + add, 1200), ColourOne) >>

\* glColor3f(r*0.25+0.1, g*0.25+0.1, b*0.25+0.1)
BackColour(c) ==
    << c[1] \div 4 + 1000, c[2] \div 4 + 1000, c[3] \div 4 + 1000 >>

\* one iteration of the loop of draw_edge(): two vertices
EdgeVertex ==
    /\ edge_i <= EdgeLast
    /\ \E s2 \in Sines, c3 \in NoiseSines, cm \in MirrorCosines,
          s10 \in NoiseSines, c5 \in NoiseSines :
          LET col == FrontColour(Band(s2, c3), Mirror(cm), Noise(s10, c5)) IN
             /\ edge_front' = col
             /\ edge_back' = BackColour(col)
    /\ edge_n' = edge_n + 2
    /\ edge_i' = edge_i + EdgeStride
    /\ UNCHANGED <<coin, last_op, last_event, hist, loop>>

EdgeNext == EdgeVertex

EdgeSpec == Init /\ [][EdgeNext]_vars

\* ------------------------------------------------------------------------
\* Properties of the frame loop and of draw_edge()

IsPrefix(a, b) == Len(a) <= Len(b) /\ a = SubSeq(b, 1, Len(a))

Handles(k) == [i \in 1..k |-> "handle_gesture"]

TickDone == pc = "while" /\ frame # <<>>

\* C7 as stated: poll, the handlers, update, clear, light, draw, present
ClaimedOrder(k) ==
    <<"poll">> \o Handles(k) \o <<"update", "clear", "light", "draw", "present">>

\* the order of main(): poll, the handlers, clear, light, update, draw, present
CodeOrder(k) ==
    <<"poll">> \o Handles(k) \o <<"clear", "light", "update", "draw", "present">>

FollowsOrder(order) ==
    /\ IsPrefix(frame, order)
    /\ IsPrefix(handled, batch)
    /\ (\E i \in DOMAIN frame : frame[i] \notin {"poll", "handle_gesture"}) =>
            handled = batch
    /\ TickDone => frame = order

\* C7 (as stated): every tick runs poll-events, handle_gesture per event in
\* order, update-state, clear, position-light, draw, present, once each.
C7_UpdateBeforeClear == FollowsOrder(ClaimedOrder(Len(batch)))

\* C7 (amended): every tick runs poll-events, handle_gesture per event in
\* order, clear, position-light, update-state, draw, present, once each;
\* update() runs after the clear and the light and after all events of the
\* tick have been handled.
C7_FrameOrder == FollowsOrder(CodeOrder(Len(batch)))

\* a complete tick with two events handled, the first one a flip trigger
C7_Witness ==
    /\ TickDone
    /\ Len(batch) = 2
    /\ IsFlipTrigger(batch[1])
    /\ frame = CodeOrder(2)
    /\ flip_anim = FlipStep

IsHolo(d) == d.prim \in {"holo_front", "holo_back"}

\* C9: the overlay fans are emitted with blending enabled and depth testing
\* and lighting disabled, after the edge ring and both faces.
C9_HoloPipelineState ==
    \A i \in DOMAIN drawn :
        IsHolo(drawn[i]) =>
            /\ drawn[i].blend
            /\ ~drawn[i].depth_test
            /\ ~drawn[i].lighting
            /\ \A prim \in {"edge", "face_front", "face_back"} :
                  \E j \in 1..(i - 1) : drawn[j].prim = prim

HasQuit(b) == \E i \in DOMAIN b : b[i] = QuitEvent

\* C10: once a QUIT event is handled the loop handles the rest of the batch,
\* runs exactly one more update, draw and present and exits without polling
\* again; handling QUIT changes no field of the Coin; without a QUIT event
\* the loop does not exit.
C10_Counts ==
    /\ ~running <=> HasQuit(handled)
    /\ after_quit.polls = 0
    /\ pc = "done" =>
          /\ HasQuit(batch)
          /\ handled = batch
          /\ after_quit = [polls |-> 0, updates |-> 1, draws |-> 1, presents |-> 1]

C10_Step ==
    (last_op' = "handle_gesture" /\ last_event' = QuitEvent) => UNCHANGED coin

C10_QuitTerminates ==
    /\ []C10_Counts
    /\ [][C10_Step]_vars
    /\ (~running ~> pc = "done")

\* the loop has exited after a batch with QUIT first and a flip trigger after it
C10_Witness ==
    /\ pc = "done"
    /\ Len(batch) = 2
    /\ batch[1] = QuitEvent
    /\ IsFlipTrigger(batch[2])
    /\ flip_anim = FlipStep

InRange(v, lo) == lo <= v /\ v <= ColourOne

\* C8: for every vertex draw_edge() emits, front band and back band, red and
\* green are within [0.08, 1.0] and blue is within [0.12, 1.0]; the loop
\* emits 73 pairs of vertices.
C8_EdgeChannels ==
    /\ edge_n > 0 =>
          /\ InRange(edge_front[1], 800)
          /\ InRange(edge_front[2], 800)
          /\ InRange(edge_front[3], 1200)
          /\ InRange(edge_back[1], 800)
          /\ InRange(edge_back[2], 800)
          /\ InRange(edge_back[3], 1200)
    /\ edge_i > EdgeLast => edge_n = 2 * 73

\* the last pair of the ring, with red and green at the floor
C8_Witness ==
    /\ edge_i > EdgeLast
    /\ edge_front[1] = 800
    /\ edge_front[2] < 4000
    /\ edge_back[1] = 1200

\* ------------------------------------------------------------------------
\* Properties of the Coin

Idle == flip_target = 0
Flipping == flip_target > 0

\* C1: between operations flip_anim is within [0, flip_target]; it is never
\* observed above flip_target.
C1_FlipAnimWithinTarget ==
    /\ 0 <= flip_anim
    /\ flip_anim <= flip_target

\* a flip one step before completion, and the state right after completion
C1_Witness ==
    /\ last_op = "update"
    /\ flip_target = 2 * FlipIncrement
    /\ flip_anim = flip_target - FlipStep
    /\ toggles > 0

\* C2: whenever the coin is idle, flipped has been toggled once per flip
\* trigger handled (two triggers before completion give two toggles).
C2_TogglePerTrigger ==
    Idle => toggles = triggers

\* C3: a flip takes (flip_target - flip_anim) / 20 update() calls counted from
\* the last trigger (9 for a single trigger from idle): every earlier call
\* adds 20 to flip_anim and leaves flipped and flip_target alone, the last one
\* resets flip_anim and flip_target and inverts flipped; with no further
\* trigger a flip in flight completes.
C3_Count ==
    /\ Flipping => since < due /\ flip_anim + FlipStep * (due - since) = flip_target
    /\ Idle /\ due > 0 => since = due /\ flip_anim = 0
    /\ flip_target = FlipIncrement => due = 9 /\ flip_anim = FlipStep * since

C3_Step ==
    (last_op' = "update" /\ Flipping) =>
        IF since + 1 < due
        THEN /\ flip_anim' = flip_anim + FlipStep
             /\ flip_target' = flip_target
             /\ flipped' = flipped
             /\ since' = since + 1
        ELSE /\ since' = due
             /\ flip_anim' = 0
             /\ flip_target' = 0
             /\ flipped' = ~flipped

C3_Completes ==
    Flipping ~> (Idle \/ (last_op = "handle_gesture" /\ IsFlipTrigger(last_event)))

C3_FixedDuration ==
    /\ []C3_Count
    /\ [][C3_Step]_vars
    /\ C3_Completes

\* the ninth update() after a single trigger from idle has completed the flip
C3_Witness ==
    /\ last_op = "update"
    /\ triggers = 1
    /\ due = 9
    /\ since = 9
    /\ Idle
    /\ flipped

\* C4: a fresh Coin is idle; update() of an idle Coin changes no field; only
\* a flip trigger leaves IDLE; while FLIPPING nothing lowers flip_target or
\* flip_anim or changes flipped, except the completing update(), which resets
\* both and toggles flipped; no gesture returns the Coin to IDLE.
C4_Fresh ==
    last_op = "init" => Idle /\ flip_anim = 0 /\ flipped = FALSE

C4_Step ==
    /\ (Idle /\ last_op' = "update") => UNCHANGED coin
    /\ (Idle /\ Flipping') =>
            last_op' = "handle_gesture" /\ IsFlipTrigger(last_event')
    /\ Flipping =>
            \/ /\ flip_target' >= flip_target
               /\ flip_anim' >= flip_anim
               /\ flipped' = flipped
            \/ /\ last_op' = "update"
               /\ flip_anim' = 0
               /\ flip_target' = 0
               /\ flipped' = ~flipped
    /\ (Flipping /\ last_op' = "handle_gesture") => Flipping'

C4_FlipStateMachine ==
    /\ []C4_Fresh
    /\ [][C4_Step]_vars

\* back in IDLE through a completing update(), with an idle update() after it
C4_Witness ==
    /\ last_op = "update"
    /\ Idle
    /\ toggles = 2
    /\ triggers = 2
    /\ since = due
    /\ flipped = FALSE

\* C5: a secondary press (button 3) or a touch-down with touch_id 2 adds
\* exactly 180 to flip_target, idle or in flight, and changes nothing else; a
\* touch-down with another id changes nothing and a primary press only
\* records last_pos.
C5_Step ==
    last_op' = "handle_gesture" =>
        /\ IsFlipTrigger(last_event') =>
              /\ flip_target' = flip_target + 180
              /\ UNCHANGED <<angle_x, angle_y, flip_anim, flipped, last_pos>>
        /\ (last_event'.type = "FINGERDOWN" /\ last_event'.touch_id # 2) =>
              UNCHANGED coin
        /\ (last_event'.type = "MOUSEBUTTONDOWN" /\ last_event'.button = 1) =>
              /\ last_pos' = last_event'.pos
              /\ UNCHANGED <<angle_x, angle_y, flip_anim, flipped, flip_target>>

C5_FlipTrigger == [][C5_Step]_vars

\* a touch-down with id 2 handled in flight, after a drag
C5_Witness ==
    /\ last_op = "handle_gesture"
    /\ last_event.type = "FINGERDOWN"
    /\ last_event.touch_id = 2
    /\ flip_anim > 0
    /\ flip_target = 2 * FlipIncrement
    /\ rot_count > 0

\* C6: angle_y (angle_x) is the sum of 0.5*dx (dy) over the drags with the
\* primary button held plus 180*dx (dy) over the touch-moves, whatever the
\* order and whatever update() calls and flip triggers come in between; a
\* drag with rel = (10, -5) adds 5.0 and -2.5; motion without the button
\* changes nothing; no rotation event changes flip_anim, flip_target, flipped.
C6_Sum ==
    /\ 2 * angle_y = 100 * sum_mouse_dx + 36 * sum_touch_dx
    /\ 2 * angle_x = 100 * sum_mouse_dy + 36 * sum_touch_dy

C6_Step ==
    (last_op' = "handle_gesture" /\ last_event'.type \in {"MOUSEMOTION", "FINGERMOTION"}) =>
        /\ UNCHANGED <<flip_anim, flip_target, flipped>>
        /\ (last_event'.type = "MOUSEMOTION" /\ ~last_event'.held) => UNCHANGED coin
        /\ (last_event' = [type |-> "MOUSEMOTION", held |-> TRUE, rel |-> <<10, -5>>]) =>
              /\ angle_y' = angle_y + 500
              /\ angle_x' = angle_x - 250

C6_AdditiveRotation ==
    /\ []C6_Sum
    /\ [][C6_Step]_vars

\* a drag and a touch-move have both been accumulated, around a flip
C6_Witness ==
    /\ sum_mouse_dx # 0
    /\ sum_touch_dy # 0
    /\ toggles > 0
    /\ last_op = "handle_gesture"
    /\ last_event.type = "MOUSEMOTION"
    /\ ~last_event.held

====
